---------------------------- MODULE Spec2Model ----------------------------
(***************************************************************************)
(* A model of excel2javascript.py: the formula translator convert_to_js,  *)
(* the cell extractor, the cycle breaker, the two sequencers               *)
(* (resolve_and_sort, which the pipeline uses, and the Kahn sequencer      *)
(* topological_sort_all_cells) and the program assembly of                 *)
(* convert_excel_to_js.                                                    *)
(*                                                                         *)
(* Text is a sequence of one-character strings, so that the regular       *)
(* expressions of the source are modelled by what they match.  Cell        *)
(* identifiers and declaration lines are strings (Join of the characters). *)
(***************************************************************************)
EXTENDS Integers, Sequences, FiniteSets, TLC

\* ------------------------------------------------------------------ bounds
\* Width of the one-row sheet that the sheet reader yields.
NumCols == 3
\* Number of vertices of the graphs handed to the Kahn sequencer.
NumVertices == 3

\* -------------------------------------------------------------- characters
UpperLetters == <<"A","B","C","D","E","F","G","H","I","J","K","L","M",
                  "N","O","P","Q","R","S","T","U","V","W","X","Y","Z">>
LowerLetters == <<"a","b","c","d","e","f","g","h","i","j","k","l","m",
                  "n","o","p","q","r","s","t","u","v","w","x","y","z">>
DigitChars == <<"0","1","2","3","4","5","6","7","8","9">>

Upper == {UpperLetters[i] : i \in 1..26}
Lower == {LowerLetters[i] : i \in 1..26}
Digit == {DigitChars[i] : i \in 1..10}
\* The class \w of the re module, over the characters of the model.
Word == Upper \cup Lower \cup Digit \cup {"_"}

RECURSIVE Join(_)
Join(s) == IF s = <<>> THEN "" ELSE Head(s) \o Join(Tail(s))

\* Length of the longest run of characters of class C that starts at s[i]:
\* what a greedy C+ consumes there.
RECURSIVE RunLen(_, _, _)
RunLen(s, i, C) ==
    IF i > Len(s) \/ s[i] \notin C THEN 0 ELSE 1 + RunLen(s, i + 1, C)

\* s[i..] starts with pat.
StartsWithAt(s, i, pat) ==
    /\ i + Len(pat) - 1 <= Len(s)
    /\ \A k \in 1..Len(pat) : s[i + k - 1] = pat[k]

DigitValue(c) == (CHOOSE i \in 1..10 : DigitChars[i] = c) - 1

\* int(ds) for a string of decimal digits.
RECURSIVE StrToInt(_)
StrToInt(ds) ==
    IF ds = <<>> THEN 0
    ELSE 10 * StrToInt(SubSeq(ds, 1, Len(ds) - 1)) + DigitValue(ds[Len(ds)])

\* str(n) for a natural number.
RECURSIVE IntToStr(_)
IntToStr(n) ==
    IF n < 10 THEN <<DigitChars[n + 1]>>
    ELSE IntToStr(n \div 10) \o <<DigitChars[(n % 10) + 1]>>

\* str(a + b / 100.0): the shortest decimal of the sum.  The float sum is the
\* exact decimal for the operands the inputs below produce (at most two
\* digits each); longer operands can round to 17 significant digits.
FloatStr(a, b) ==
    LET ip == a + (b \div 100)
        fr == b % 100
        frac == IF fr = 0 THEN <<"0">>
                ELSE IF fr % 10 = 0 THEN <<DigitChars[(fr \div 10) + 1]>>
                ELSE <<DigitChars[(fr \div 10) + 1], DigitChars[(fr % 10) + 1]>>
    IN  IntToStr(ip) \o <<".">> \o frac

\* ------------------------------------------------- openpyxl.utils helpers
\* column_index_from_string accepts one to three letters (upper-cased
\* first) and raises ValueError on anything else.
LetterIndex(c) ==
    IF c \in Upper THEN CHOOSE i \in 1..26 : UpperLetters[i] = c
    ELSE CHOOSE i \in 1..26 : LowerLetters[i] = c

column_name_valid(str) ==
    /\ Len(str) \in 1..3
    /\ \A k \in 1..Len(str) : str[k] \in Upper \cup Lower

RECURSIVE column_index_from_string(_)
column_index_from_string(str) ==
    IF str = <<>> THEN 0
    ELSE 26 * column_index_from_string(SubSeq(str, 1, Len(str) - 1))
         + LetterIndex(str[Len(str)])

\* get_column_letter, for the indexes of one and two letter columns.
get_column_letter(idx) ==
    IF idx <= 26 THEN <<UpperLetters[idx]>>
    ELSE <<UpperLetters[(idx - 1) \div 26], UpperLetters[((idx - 1) % 26) + 1]>>

\* ------------------------------------------------------------ convert_to_js
\* re.sub(r"(\d+),(\d+)%", lambda m: str(int(g1) + int(g2)/100.0) + "/100")
RECURSIVE sub_comma_percent(_, _)
sub_comma_percent(s, i) ==
    IF i > Len(s) THEN <<>>
    ELSE LET n1 == RunLen(s, i, Digit)
             j  == i + n1
             n2 == RunLen(s, j + 1, Digit)
             k  == j + 1 + n2
         IN  IF /\ n1 > 0
                /\ j <= Len(s) /\ s[j] = ","
                /\ n2 > 0
                /\ k <= Len(s) /\ s[k] = "%"
             THEN FloatStr(StrToInt(SubSeq(s, i, j - 1)),
                           StrToInt(SubSeq(s, j + 1, k - 1)))
                  \o <<"/","1","0","0">> \o sub_comma_percent(s, k + 1)
             ELSE <<s[i]>> \o sub_comma_percent(s, i + 1)

\* re.sub(r"(\d+)%", lambda m: str(int(g1)) + "/100")
RECURSIVE sub_percent(_, _)
sub_percent(s, i) ==
    IF i > Len(s) THEN <<>>
    ELSE LET n1 == RunLen(s, i, Digit)
             j  == i + n1
         IN  IF n1 > 0 /\ j <= Len(s) /\ s[j] = "%"
             THEN IntToStr(StrToInt(SubSeq(s, i, j - 1)))
                  \o <<"/","1","0","0">> \o sub_percent(s, j + 1)
             ELSE <<s[i]>> \o sub_percent(s, i + 1)

\* A match of r"SUM\((\w+):(\w+)\)" at s[i]: its two groups and the index
\* after it, or ok = FALSE.
sum_match(s, i) ==
    LET a  == i + 4
        n1 == RunLen(s, a, Word)
        c  == a + n1
        n2 == RunLen(s, c + 1, Word)
        e  == c + 1 + n2
    IN  IF /\ StartsWithAt(s, i, <<"S","U","M","(">>)
           /\ n1 > 0
           /\ c <= Len(s) /\ s[c] = ":"
           /\ n2 > 0
           /\ e <= Len(s) /\ s[e] = ")"
        THEN [ok |-> TRUE, g1 |-> SubSeq(s, a, c - 1),
              g2 |-> SubSeq(s, c + 1, e - 1), next |-> e + 1]
        ELSE [ok |-> FALSE, g1 |-> <<>>, g2 |-> <<>>, next |-> i + 1]

\* The lambda of the SUM substitution raises ValueError when the first
\* character of either group is no column letter.
sum_lambda_raises(g1, g2) ==
    \/ ~column_name_valid(SubSeq(g2, 1, 1))
    \/ ~column_name_valid(SubSeq(g1, 1, 1))

\* '+'.join(get_column_letter(col(g1[:1]) + i) + g1[1:]
\*          for i in range(col(g2[:1]) - col(g1[:1]) + 1))
RECURSIVE sum_terms(_, _, _)
sum_terms(first, last, rest) ==
    IF first > last THEN <<>>
    ELSE get_column_letter(first) \o rest
         \o (IF first < last THEN <<"+">> ELSE <<>>)
         \o sum_terms(first + 1, last, rest)

sum_lambda(g1, g2) ==
    sum_terms(column_index_from_string(SubSeq(g1, 1, 1)),
              column_index_from_string(SubSeq(g2, 1, 1)),
              SubSeq(g1, 2, Len(g1)))

RECURSIVE sub_sum(_, _)
sub_sum(s, i) ==
    IF i > Len(s) THEN <<>>
    ELSE LET m == sum_match(s, i)
         IN  IF m.ok THEN sum_lambda(m.g1, m.g2) \o sub_sum(s, m.next)
             ELSE <<s[i]>> \o sub_sum(s, i + 1)

RECURSIVE sub_sum_raises(_, _)
sub_sum_raises(s, i) ==
    IF i > Len(s) THEN FALSE
    ELSE LET m == sum_match(s, i)
         IN  IF m.ok THEN sum_lambda_raises(m.g1, m.g2) \/ sub_sum_raises(s, m.next)
             ELSE sub_sum_raises(s, i + 1)

\* str.replace(pat, rep): every non-overlapping occurrence, left to right.
RECURSIVE str_replace(_, _, _, _)
str_replace(s, i, pat, rep) ==
    IF i > Len(s) THEN <<>>
    ELSE IF StartsWithAt(s, i, pat)
         THEN rep \o str_replace(s, i + Len(pat), pat, rep)
         ELSE <<s[i]>> \o str_replace(s, i + 1, pat, rep)

\* re.sub(r"(\d+),(\d+)", r"\1.\2")
RECURSIVE sub_comma_decimal(_, _)
sub_comma_decimal(s, i) ==
    IF i > Len(s) THEN <<>>
    ELSE LET n1 == RunLen(s, i, Digit)
             j  == i + n1
             n2 == RunLen(s, j + 1, Digit)
         IN  IF n1 > 0 /\ j <= Len(s) /\ s[j] = "," /\ n2 > 0
             THEN SubSeq(s, i, j - 1) \o <<".">> \o SubSeq(s, j + 1, j + n2)
                  \o sub_comma_decimal(s, j + 1 + n2)
             ELSE <<s[i]>> \o sub_comma_decimal(s, i + 1)

\* The text after the two percentage substitutions (lines 25 and 28).
after_percent(formula) == sub_percent(sub_comma_percent(formula, 1), 1)

\* convert_to_js raises (ValueError out of the SUM lambda) on this text.
convert_to_js_raises(formula) == sub_sum_raises(after_percent(formula), 1)

\* The string convert_to_js returns when it does not raise.
convert_to_js(formula) ==
    LET s3 == sub_sum(after_percent(formula), 1)
        s4 == str_replace(str_replace(s3, 1, <<"M","I","N">>,
                                      <<"M","a","t","h",".","m","i","n">>),
                          1, <<"M","A","X">>,
                          <<"M","a","t","h",".","m","a","x">>)
        s5 == sub_comma_decimal(s4, 1)
    IN  str_replace(s5, 1, <<"$">>, <<>>)


\* ---------------------------------------------------------- reference scan
\* re.findall(r'[A-Z]+\$?\d+', formula), each match with its '$' removed:
\* the set of cell identifiers the raw formula text references.
RECURSIVE find_refs(_, _)
find_refs(s, i) ==
    IF i > Len(s) THEN {}
    ELSE LET n1 == RunLen(s, i, Upper)
             j  == i + n1
             d  == IF j <= Len(s) /\ s[j] = "$" THEN j + 1 ELSE j
             n2 == RunLen(s, d, Digit)
         IN  IF n1 > 0 /\ n2 > 0
             THEN {Join(SubSeq(s, i, j - 1) \o SubSeq(s, d, d + n2 - 1))}
                  \cup find_refs(s, d + n2)
             ELSE find_refs(s, i + 1)

\* ------------------------------------------------------------------ sheet
\* enumerate(..., start=1): rows and columns are numbered from 1.
FirstRow == 1
FirstCol == 1

Columns == FirstCol..NumCols

RefChars(col_idx, row_idx) == get_column_letter(col_idx) \o IntToStr(row_idx)
\* cell_ref = get_column_letter(col_idx) + str(row_idx)
cell_ref(col_idx, row_idx) == Join(RefChars(col_idx, row_idx))

\* cell.value: None, a number, or a string.
NoneValue == [kind |-> "none", number |-> 0, text |-> <<>>]
NumberValue(n) == [kind |-> "num", number |-> n, text |-> <<>>]
StrValue(s) == [kind |-> "str", number |-> 0, text |-> s]

\* The cell values a sheet of the model holds: nothing (a text that starts
\* with no '=' takes the same path through the pass), a number, or a
\* formula: the sum of two cells of the row, a sum that also references the
\* cell right of the row (absolute markers on it), a range sum from the
\* second cell to that cell, and a range sum whose bounds are no cells.
PairFormulas ==
    {<<"=">> \o RefChars(c1, FirstRow) \o <<"+">> \o RefChars(c2, FirstRow) :
        <<c1, c2>> \in {p \in Columns \X Columns : p[1] < p[2]}}
OutsideFormula ==
    <<"=">> \o RefChars(NumCols, FirstRow)
    \o <<"+", "$">> \o get_column_letter(NumCols + 1) \o <<"$">> \o IntToStr(FirstRow)
RangeFormula ==
    <<"=", "S", "U", "M", "(">> \o RefChars(FirstCol + 1, FirstRow) \o <<":">>
    \o RefChars(NumCols + 1, FirstRow) \o <<")">>
BadRangeFormula == <<"=", "S", "U", "M", "(", "1", ":", "2", ")">>

CellValues ==
    {NoneValue, NumberValue(5)}
    \cup {StrValue(f) : f \in PairFormulas \cup {OutsideFormula, RangeFormula, BadRangeFormula}}

Sheets == [Columns -> CellValues]

\* isinstance(cell.value, (int, float))
is_number(v) == v.kind = "num"
\* isinstance(cell.value, str) and cell.value.startswith('=')
is_formula(v) == v.kind = "str" /\ Len(v.text) >= 1 /\ v.text[1] = "="
\* formula = cell.value[1:]
formula_text(v) == SubSeq(v.text, 2, Len(v.text))

\* ---------------------------------------------- extract_and_convert_all_cells
\* All orders in which a set can be iterated.
Orders(S) ==
    {p \in [1..Cardinality(S) -> S] : \A i, j \in 1..Cardinality(S) : p[i] = p[j] => i = j}

SeqToSet(q) == {q[i] : i \in 1..Len(q)}

ColumnSeq == [i \in 1..(NumCols - FirstCol + 1) |-> FirstCol + i - 1]

\* The columns of the cells the pass defines, in the row-major order of the pass.
defined_columns(sh) ==
    SelectSeq(ColumnSeq, LAMBDA c : is_number(sh[c]) \/ is_formula(sh[c]))
defined_order(sh) ==
    [i \in 1..Len(defined_columns(sh)) |-> cell_ref(defined_columns(sh)[i], FirstRow)]
defined_cells(sh) == SeqToSet(defined_order(sh))

\* The columns of the formula cells with at least one reference: the keys
\* of dependency_graph, in insertion order.
key_columns(sh) ==
    SelectSeq(ColumnSeq,
              LAMBDA c : is_formula(sh[c]) /\ find_refs(formula_text(sh[c]), 1) # {})
dependency_keys(sh) ==
    [i \in 1..Len(key_columns(sh)) |-> cell_ref(key_columns(sh)[i], FirstRow)]
dependency_graph(sh) ==
    [k \in SeqToSet(dependency_keys(sh)) |->
        LET c == CHOOSE c \in Columns : cell_ref(c, FirstRow) = k
        IN  find_refs(formula_text(sh[c]), 1)]

original_formulas_of(sh) ==
    [k \in {cell_ref(c, FirstRow) : c \in {c \in Columns : is_formula(sh[c])}} |->
        LET c == CHOOSE c \in Columns : cell_ref(c, FirstRow) = k
        IN  Join(sh[c].text)]

\* The pass raises when convert_to_js raises on one of the formulas.
extract_raises(sh) ==
    \E c \in Columns : is_formula(sh[c]) /\ convert_to_js_raises(formula_text(sh[c]))

Declaration(ref, expr) == "var " \o ref \o " = " \o expr \o ";"

all_vars(sh) ==
    defined_cells(sh) \cup UNION {dependency_graph(sh)[k] : k \in DOMAIN dependency_graph(sh)}
undefined_vars(sh) == all_vars(sh) \ defined_cells(sh)

\* all_cells as the pass leaves it: one declaration per defined cell and
\* "var X = 0;" for every referenced cell the sheet does not define.
declarations(sh) ==
    [k \in all_vars(sh) |->
        IF k \in defined_cells(sh)
        THEN LET c == CHOOSE c \in Columns : cell_ref(c, FirstRow) = k
             IN  IF is_number(sh[c])
                 THEN Declaration(k, Join(IntToStr(sh[c].number)))
                 ELSE Declaration(k, Join(convert_to_js(formula_text(sh[c]))))
        ELSE Declaration(k, "0")]


\* ------------------------------------------------------------------ state
VARIABLES
    pc,                   \* position of the run
    formula, js,          \* convert_to_js: its argument and its result
    sheet,                \* the cells the sheet reader yields
    all_cells,            \* cell identifier -> declaration line
    all_cells_order,      \* insertion order of all_cells (dict iteration order)
    graph,                \* dependency_graph: key -> set of referenced cells
    original_formulas,    \* cell identifier -> formula text as read
    roots,                \* list(graph.keys()) taken by detect_and_break_cycles
    states,               \* vertex -> WHITE / GRAY / BLACK (absent: WHITE)
    cycle_edges,          \* edges scheduled for removal
    stack,                \* the active calls of dfs, then of resolve
    examined,             \* history: every edge dfs examined, with what it saw
    resolved, unresolved, \* resolve_and_sort's two sets
    next_idx,             \* position of "for node in all_cells"
    sorted_nodes,         \* the order being built
    sorted_all_js_lines,  \* the lines of the program returned
    indegree,             \* topological_sort_all_cells: vertex -> counter
    queue,                \* its deque
    remaining_nodes,      \* its fallback set
    emitted_by            \* history: vertex -> phases that emitted it

vars == <<pc, formula, js, sheet, all_cells, all_cells_order, graph,
          original_formulas, roots, states, cycle_edges, stack, examined,
          resolved, unresolved, next_idx, sorted_nodes, sorted_all_js_lines,
          indegree, queue, remaining_nodes, emitted_by>>

translator_vars == <<formula, js>>
extract_vars == <<sheet, all_cells, all_cells_order, original_formulas>>
dfs_vars == <<roots, states, cycle_edges, examined>>
resolve_vars == <<resolved, unresolved, next_idx, sorted_all_js_lines>>
kahn_vars == <<indegree, queue, remaining_nodes, emitted_by>>

EmptyMap == [k \in {} |-> 0]

\* d[k] = x, inserting k when it is no key of d.
SetKey(d, k, x) == [y \in DOMAIN d \cup {k} |-> IF y = k THEN x ELSE d[y]]

\* graph[v] of the defaultdict(set) and graph.get(v, []) read the same set.
graph_get(g, v) == IF v \in DOMAIN g THEN g[v] ELSE {}
\* Reading graph[v] inserts v with an empty set when v is no key.
graph_touch(g, v) == IF v \in DOMAIN g THEN g ELSE SetKey(g, v, {})

\* states[v] of defaultdict(lambda: State.WHITE)
state_of(v) == IF v \in DOMAIN states THEN states[v] ELSE "WHITE"

Edges(g) == {e \in (DOMAIN g) \X (UNION {g[k] : k \in DOMAIN g}) : e[2] \in g[e[1]]}

\* Values of the variables an operation has not yet set.
Idle ==
    /\ formula = <<>> /\ js = <<>>
    /\ all_cells = EmptyMap /\ all_cells_order = <<>>
    /\ graph = EmptyMap /\ original_formulas = EmptyMap
    /\ roots = <<>> /\ states = EmptyMap /\ cycle_edges = {}
    /\ stack = <<>> /\ examined = {}
    /\ resolved = {} /\ unresolved = {} /\ next_idx = 1
    /\ sorted_nodes = <<>> /\ sorted_all_js_lines = <<>>
    /\ indegree = EmptyMap /\ queue = <<>> /\ remaining_nodes = {}
    /\ emitted_by = EmptyMap

\* ------------------------------------------------- convert_excel_to_js
\* workbook.active as loaded: any sheet of the model.
Init ==
    /\ pc = "extract"
    /\ sheet \in Sheets
    /\ Idle

\* extract_and_convert_all_cells(sheet) returns.  The undefined variables
\* are inserted into all_cells in the iteration order of a set.
Extract ==
    /\ pc = "extract"
    /\ ~extract_raises(sheet)
    /\ \E tail \in Orders(undefined_vars(sheet)) :
          all_cells_order' = defined_order(sheet) \o tail
    /\ all_cells' = declarations(sheet)
    /\ graph' = dependency_graph(sheet)
    /\ original_formulas' = original_formulas_of(sheet)
    /\ roots' = dependency_keys(sheet)
    /\ pc' = "detect"
    /\ UNCHANGED <<sheet, translator_vars, states, cycle_edges, stack, examined,
                   resolved, unresolved, next_idx, sorted_nodes,
                   sorted_all_js_lines, kahn_vars>>

\* convert_to_js raises inside the pass: the ValueError leaves convert_excel_to_js.
ExtractRaise ==
    /\ pc = "extract"
    /\ extract_raises(sheet)
    /\ pc' = "raised"
    /\ UNCHANGED <<translator_vars, extract_vars, graph, dfs_vars, stack,
                   resolve_vars, sorted_nodes, kahn_vars>>

\* ------------------------------------------------ detect_and_break_cycles
Top == stack[Len(stack)]
Pop == SubSeq(stack, 1, Len(stack) - 1)
Frame(v, todo) == [vertex |-> v, todo |-> todo]
\* The top call with neighbour n taken off its iteration.
Advance(n) == [stack EXCEPT ![Len(stack)].todo = @ \ {n}]
OnPath(v) == \E i \in 1..Len(stack) : stack[i].vertex = v

Saw(u, v) == [from |-> u, to |-> v, state |-> state_of(v), on_path |-> OnPath(v)]

\* "for vertex in list(graph.keys()): if states[vertex] == WHITE: dfs(vertex, [])"
\* The first key still WHITE is the next one the loop calls dfs on.
WhiteRoots == {i \in 1..Len(roots) : state_of(roots[i]) = "WHITE"}

DfsRoot ==
    /\ pc = "detect" /\ stack = <<>>
    /\ WhiteRoots # {}
    /\ LET v == roots[CHOOSE i \in WhiteRoots : \A j \in WhiteRoots : i <= j]
       IN  /\ states' = SetKey(states, v, "GRAY")
           /\ stack' = <<Frame(v, graph_get(graph, v))>>
           /\ graph' = graph_touch(graph, v)
    /\ UNCHANGED <<pc, translator_vars, extract_vars, roots, cycle_edges, examined,
                   resolve_vars, sorted_nodes, kahn_vars>>

\* The neighbour is WHITE: dfs(neighbor, path + [vertex]).
DfsDescend ==
    /\ pc = "detect" /\ stack # <<>>
    /\ \E n \in Top.todo :
          /\ state_of(n) = "WHITE"
          /\ examined' = examined \cup {Saw(Top.vertex, n)}
          /\ states' = SetKey(states, n, "GRAY")
          /\ stack' = Append(Advance(n), Frame(n, graph_get(graph, n)))
          /\ graph' = graph_touch(graph, n)
    /\ UNCHANGED <<pc, translator_vars, extract_vars, roots, cycle_edges,
                   resolve_vars, sorted_nodes, kahn_vars>>

\* What the caller does with the value its call of dfs returned (line 211):
\* on True it schedules the edge it descended along.
caller_edges(found, caller, callee) ==
    IF found THEN {<<caller, callee>>} ELSE {}

ReturnTo(found) ==
    IF Len(stack) > 1
    THEN caller_edges(found, stack[Len(stack) - 1].vertex, Top.vertex)
    ELSE {}

\* The neighbour is GRAY: the edge is scheduled and dfs returns True, its
\* vertex left GRAY and its other neighbours not examined.
DfsCycleFound ==
    /\ pc = "detect" /\ stack # <<>>
    /\ \E n \in Top.todo :
          /\ state_of(n) = "GRAY"
          /\ examined' = examined \cup {Saw(Top.vertex, n)}
          /\ cycle_edges' = cycle_edges \cup {<<Top.vertex, n>>} \cup ReturnTo(TRUE)
          /\ stack' = Pop
    /\ UNCHANGED <<pc, translator_vars, extract_vars, graph, roots, states,
                   resolve_vars, sorted_nodes, kahn_vars>>

\* The neighbour is BLACK: neither branch applies, the loop goes on.
DfsSkip ==
    /\ pc = "detect" /\ stack # <<>>
    /\ \E n \in Top.todo :
          /\ state_of(n) = "BLACK"
          /\ examined' = examined \cup {Saw(Top.vertex, n)}
          /\ stack' = Advance(n)
    /\ UNCHANGED <<pc, translator_vars, extract_vars, graph, roots, states,
                   cycle_edges, resolve_vars, sorted_nodes, kahn_vars>>

\* The loop over the neighbours ends: the vertex turns BLACK, dfs returns False.
DfsReturn ==
    /\ pc = "detect" /\ stack # <<>>
    /\ Top.todo = {}
    /\ states' = SetKey(states, Top.vertex, "BLACK")
    /\ cycle_edges' = cycle_edges \cup ReturnTo(FALSE)
    /\ stack' = Pop
    /\ UNCHANGED <<pc, translator_vars, extract_vars, graph, roots, examined,
                   resolve_vars, sorted_nodes, kahn_vars>>

\* "for edge in cycle_edges: graph[edge[0]].remove(edge[1])"
remove_cycle_edges(g, edges) ==
    [k \in DOMAIN g |-> {n \in g[k] : <<k, n>> \notin edges}]

BreakCycles ==
    /\ pc = "detect" /\ stack = <<>>
    /\ WhiteRoots = {}
    /\ graph' = remove_cycle_edges(graph, cycle_edges)
    /\ pc' = "resolve"
    /\ UNCHANGED <<translator_vars, extract_vars, dfs_vars, stack,
                   resolve_vars, sorted_nodes, kahn_vars>>


\* ------------------------------------------------------- resolve_and_sort
\* A variant of line 183 that puts the node in front of the order.
resolve_emit_first(order, node) == <<node>> \o order
\* sorted_nodes.append(node)
resolve_emit(order, node) == Append(order, node)

\* "for node in all_cells": the node was resolved by an earlier call.
ResolveSkip ==
    /\ pc = "resolve" /\ stack = <<>>
    /\ next_idx <= Len(all_cells_order)
    /\ all_cells_order[next_idx] \in resolved
    /\ next_idx' = next_idx + 1
    /\ UNCHANGED <<pc, translator_vars, extract_vars, graph, dfs_vars, stack,
                   resolved, unresolved, sorted_nodes, sorted_all_js_lines,
                   kahn_vars>>

\* "for node in all_cells": resolve(node) on a node not yet resolved.
ResolveRoot ==
    /\ pc = "resolve" /\ stack = <<>>
    /\ next_idx <= Len(all_cells_order)
    /\ LET node == all_cells_order[next_idx]
       IN  /\ node \notin resolved
           /\ unresolved' = unresolved \cup {node}
           /\ stack' = <<Frame(node, graph_get(graph, node))>>
    /\ UNCHANGED <<pc, translator_vars, extract_vars, graph, dfs_vars,
                   resolved, next_idx, sorted_nodes, sorted_all_js_lines,
                   kahn_vars>>

\* resolve(dep) on a dependency already resolved returns True at once.
ResolveKnown ==
    /\ pc = "resolve" /\ stack # <<>>
    /\ \E dep \in Top.todo :
          /\ dep \in resolved
          /\ stack' = Advance(dep)
    /\ UNCHANGED <<pc, translator_vars, extract_vars, graph, dfs_vars,
                   resolve_vars, sorted_nodes, kahn_vars>>

\* resolve(dep) on a dependency neither resolved nor being resolved.
ResolveDescend ==
    /\ pc = "resolve" /\ stack # <<>>
    /\ \E dep \in Top.todo :
          /\ dep \notin resolved /\ dep \notin unresolved
          /\ unresolved' = unresolved \cup {dep}
          /\ stack' = Append(Advance(dep), Frame(dep, graph_get(graph, dep)))
    /\ UNCHANGED <<pc, translator_vars, extract_vars, graph, dfs_vars,
                   resolved, next_idx, sorted_nodes, sorted_all_js_lines,
                   kahn_vars>>

\* resolve(dep) on a dependency being resolved returns False, every caller
\* propagates it, and the loop of line 186 raises ValueError.
ResolveCycle ==
    /\ pc = "resolve" /\ stack # <<>>
    /\ \E dep \in Top.todo : dep \notin resolved /\ dep \in unresolved
    /\ stack' = <<>>
    /\ pc' = "raised"
    /\ UNCHANGED <<translator_vars, extract_vars, graph, dfs_vars,
                   resolve_vars, sorted_nodes, kahn_vars>>

\* Every dependency resolved: the node is resolved and appended.
ResolveReturn ==
    /\ pc = "resolve" /\ stack # <<>>
    /\ Top.todo = {}
    /\ resolved' = resolved \cup {Top.vertex}
    /\ unresolved' = unresolved \ {Top.vertex}
    /\ sorted_nodes' = resolve_emit(sorted_nodes, Top.vertex)
    /\ stack' = Pop
    /\ next_idx' = IF Len(stack) = 1 THEN next_idx + 1 ELSE next_idx
    /\ UNCHANGED <<pc, translator_vars, extract_vars, graph, dfs_vars,
                   sorted_all_js_lines, kahn_vars>>

\* [all_cells_js[cell_ref] for cell_ref in sorted_all_cells if cell_ref in all_cells_js]
assemble(order, cells) ==
    LET kept == SelectSeq(order, LAMBDA c : c \in DOMAIN cells)
    IN  [i \in 1..Len(kept) |-> cells[kept[i]]]

\* resolve_and_sort returns; convert_excel_to_js assembles the program.
Assemble ==
    /\ pc = "resolve" /\ stack = <<>>
    /\ next_idx > Len(all_cells_order)
    /\ sorted_all_js_lines' = assemble(sorted_nodes, all_cells)
    /\ pc' = "done"
    /\ UNCHANGED <<translator_vars, extract_vars, graph, dfs_vars, stack,
                   resolved, unresolved, next_idx, sorted_nodes, kahn_vars>>

Next ==
    \/ Extract \/ ExtractRaise
    \/ DfsRoot \/ DfsDescend \/ DfsCycleFound \/ DfsSkip \/ DfsReturn
    \/ BreakCycles
    \/ ResolveSkip \/ ResolveRoot \/ ResolveKnown \/ ResolveDescend
    \/ ResolveCycle \/ ResolveReturn
    \/ Assemble

Spec == Init /\ [][Next]_vars


\* --------------------------------------------- topological_sort_all_cells
\* The sequencer is called by nothing in the file; it is run here on every
\* graph over a closed vertex set, cyclic ones included.
KahnVertices == {cell_ref(c, FirstRow) : c \in FirstCol..NumVertices}
KahnGraphs == [KahnVertices -> SUBSET KahnVertices]

InitKahn ==
    /\ pc = "kahn"
    /\ formula = <<>> /\ js = <<>>
    /\ sheet = EmptyMap
    /\ graph \in KahnGraphs
    /\ all_cells = [v \in KahnVertices |-> Declaration(v, "0")]
    /\ all_cells_order = [i \in 1..NumVertices |-> cell_ref(FirstCol + i - 1, FirstRow)]
    /\ original_formulas = EmptyMap
    /\ roots = <<>> /\ states = EmptyMap /\ cycle_edges = {}
    /\ stack = <<>> /\ examined = {}
    /\ resolved = {} /\ unresolved = {} /\ next_idx = 1
    /\ sorted_nodes = <<>> /\ sorted_all_js_lines = <<>>
    /\ indegree = EmptyMap /\ queue = <<>> /\ remaining_nodes = {}
    /\ emitted_by = EmptyMap

\* Lines 112-117, and the zero entries that reading indegree[node] for
\* every node of all_cells inserts (line 121): the number of cells whose
\* dependency set holds the vertex.
kahn_indegree(g, cells) ==
    [v \in DOMAIN cells \cup UNION {g[k] : k \in DOMAIN g} |->
        Cardinality({k \in DOMAIN g : v \in g[k]})]

\* zero_indegree_nodes = set(node for node in all_cells if indegree[node] == 0)
zero_indegree_nodes(deg, cells) == {v \in DOMAIN cells : deg[v] = 0}

\* "indegree[neighbor] -= 1" for every neighbour of the node.
decrement(deg, g, node) ==
    [v \in DOMAIN deg |-> IF v \in graph_get(g, node) THEN deg[v] - 1 ELSE deg[v]]

\* The neighbours whose counter the decrement brings to zero.
newly_zero(deg, g, node) == {v \in graph_get(g, node) : deg[v] - 1 = 0}

\* A variant of line 139 that forgets what the queue phase emitted.
kahn_all_nodes(cells, order) == DOMAIN cells
\* remaining_nodes = set(all_cells) - set(sorted_nodes)
kahn_remaining(cells, order) == DOMAIN cells \ SeqToSet(order)

\* min(remaining_nodes, key=...) returns the first smallest node of the
\* set's iteration order: any node of smallest in-degree.
smallest(rem, deg) == {v \in rem : \A w \in rem : deg[v] <= deg[w]}

Emit(v, phase) ==
    SetKey(emitted_by, v,
           (IF v \in DOMAIN emitted_by THEN emitted_by[v] ELSE {}) \cup {phase})

\* Lines 111-122: the counters, and the queue in the iteration order of a set.
KahnStart ==
    /\ pc = "kahn"
    /\ indegree' = kahn_indegree(graph, all_cells)
    /\ queue' \in Orders(zero_indegree_nodes(indegree', all_cells))
    /\ pc' = "kahn_queue"
    /\ UNCHANGED <<translator_vars, extract_vars, graph, dfs_vars, stack,
                   resolve_vars, sorted_nodes, remaining_nodes, emitted_by>>

\* One turn of "while queue": the neighbours that reach zero are appended
\* in the iteration order of the dependency set.
KahnDequeue ==
    /\ pc = "kahn_queue" /\ queue # <<>>
    /\ LET node == Head(queue)
       IN  /\ sorted_nodes' = Append(sorted_nodes, node)
           /\ emitted_by' = Emit(node, "queue")
           /\ indegree' = decrement(indegree, graph, node)
           /\ \E more \in Orders(newly_zero(indegree, graph, node)) :
                 queue' = Tail(queue) \o more
    /\ UNCHANGED <<pc, translator_vars, extract_vars, graph, dfs_vars, stack,
                   resolve_vars, remaining_nodes>>

\* The queue is empty: line 139.
KahnRemaining ==
    /\ pc = "kahn_queue" /\ queue = <<>>
    /\ remaining_nodes' = kahn_remaining(all_cells, sorted_nodes)
    /\ pc' = "kahn_fallback"
    /\ UNCHANGED <<translator_vars, extract_vars, graph, dfs_vars, stack,
                   resolve_vars, sorted_nodes, indegree, queue, emitted_by>>

\* One turn of "while remaining_nodes".
KahnForce ==
    /\ pc = "kahn_fallback" /\ remaining_nodes # {}
    /\ \E node \in smallest(remaining_nodes, indegree) :
          /\ sorted_nodes' = Append(sorted_nodes, node)
          /\ emitted_by' = Emit(node, "fallback")
          /\ remaining_nodes' = remaining_nodes \ {node}
          /\ indegree' = decrement(indegree, graph, node)
    /\ UNCHANGED <<pc, translator_vars, extract_vars, graph, dfs_vars, stack,
                   resolve_vars, queue>>

\* return sorted_nodes
KahnReturn ==
    /\ pc = "kahn_fallback" /\ remaining_nodes = {}
    /\ pc' = "kahn_done"
    /\ UNCHANGED <<translator_vars, extract_vars, graph, dfs_vars, stack,
                   resolve_vars, sorted_nodes, kahn_vars>>

NextKahn == KahnStart \/ KahnDequeue \/ KahnRemaining \/ KahnForce \/ KahnReturn

SpecKahn == InitKahn /\ [][NextKahn]_vars
\* The function is one thread of straight-line loops: a step that can be
\* taken is taken.
SpecKahnFair == SpecKahn /\ WF_vars(NextKahn)


\* ------------------------------------------------- convert_to_js, alone
\* The arguments of SUM in the formulas below: cells of one row with one
\* and two letter columns, a cell of another row, and two \w+ words that
\* start with no letter.
RangeArgs ==
    {<<"B","2">>, <<"C","2">>, <<"D","2">>, <<"D","5">>,
     <<"A","A","2">>, <<"A","C","2">>, <<"1","2">>, <<"_","2">>}

SumCall(r1, r2) == <<"S","U","M","(">> \o r1 \o <<":">> \o r2 \o <<")">>

Prefixes == {<<>>, <<"2","*">>}
Suffixes == {<<>>, <<"+","$","E","$","1">>}

OtherFormulas ==
    {<<"A","1","+","B","1">>,
     <<"1","0",",","5","%">>,
     <<"5","0","%","*","A","1">>,
     <<"1","2",",","2","5","%","+","0","5","%">>,
     <<"M","I","N","(","A","1",";","B","1",")">>,
     <<"M","A","X","(","$","A","$","1",",","2",",","5",")">>,
     <<"1",",","5","*","A","1">>,
     <<"I","F","(","A","1",">","0",";","1",";","2",")">>}

TranslatorInputs ==
    {pre \o SumCall(r1, r2) \o post :
        pre \in Prefixes, post \in Suffixes, r1 \in RangeArgs, r2 \in RangeArgs}
    \cup OtherFormulas

InitTranslate ==
    /\ pc = "convert"
    /\ formula \in TranslatorInputs
    /\ js = <<>>
    /\ sheet = EmptyMap
    /\ all_cells = EmptyMap /\ all_cells_order = <<>>
    /\ graph = EmptyMap /\ original_formulas = EmptyMap
    /\ roots = <<>> /\ states = EmptyMap /\ cycle_edges = {}
    /\ stack = <<>> /\ examined = {}
    /\ resolved = {} /\ unresolved = {} /\ next_idx = 1
    /\ sorted_nodes = <<>> /\ sorted_all_js_lines = <<>>
    /\ indegree = EmptyMap /\ queue = <<>> /\ remaining_nodes = {}
    /\ emitted_by = EmptyMap

\* return formula
ConvertReturn ==
    /\ pc = "convert"
    /\ ~convert_to_js_raises(formula)
    /\ js' = convert_to_js(formula)
    /\ pc' = "returned"
    /\ UNCHANGED <<formula, extract_vars, graph, dfs_vars, stack, resolve_vars,
                   sorted_nodes, kahn_vars>>

\* column_index_from_string raises ValueError inside the SUM substitution.
ConvertRaise ==
    /\ pc = "convert"
    /\ convert_to_js_raises(formula)
    /\ pc' = "raised"
    /\ UNCHANGED <<translator_vars, extract_vars, graph, dfs_vars, stack,
                   resolve_vars, sorted_nodes, kahn_vars>>

NextTranslate == ConvertReturn \/ ConvertRaise

SpecTranslate == InitTranslate /\ [][NextTranslate]_vars


\* ======================================================================
\* Properties
\* ======================================================================
RECURSIVE Closure(_, _)
Closure(g, S) ==
    LET T == S \cup UNION {graph_get(g, x) : x \in S}
    IN  IF T = S THEN S ELSE Closure(g, T)
\* The vertices a path of one or more edges leads to from v.
Reachable(g, v) == Closure(g, graph_get(g, v))
Acyclic(g) == \A v \in DOMAIN g : v \notin Reachable(g, v)

\* The dependency graph as the extractor built it, before the cycle breaker.
graph0 == dependency_graph(sheet)

Count(order, v) == Cardinality({i \in 1..Len(order) : order[i] = v})
\* The lines of the program that declare cell c.
LinesOf(c) == {i \in 1..Len(sorted_all_js_lines) : sorted_all_js_lines[i] = all_cells[c]}
DeclaredBefore(b, a) ==
    /\ LinesOf(a) # {} /\ LinesOf(b) # {}
    /\ \A i \in LinesOf(b), j \in LinesOf(a) : i < j
ListedBefore(order, b, a) ==
    /\ Count(order, a) = 1 /\ Count(order, b) = 1
    /\ \A i, j \in 1..Len(order) : order[i] = b /\ order[j] = a => i < j

\* The ValueError of resolve_and_sort (the extractor raises before it has
\* built any declaration).
RaisedInResolve == pc = "raised" /\ DOMAIN all_cells # {}
ExtractReturned == pc \in {"detect", "resolve", "done"} \/ RaisedInResolve
CyclesBroken == pc \in {"resolve", "done"} \/ RaisedInResolve

\* C1: for a sheet whose dependency graph is acyclic, the program that
\* convert_excel_to_js returns declares, for every edge A->B of the graph,
\* cell B on an earlier line than cell A.
C1_DependenciesFirst ==
    (pc = "done" /\ Acyclic(graph0)) =>
        \A e \in Edges(graph0) : DeclaredBefore(e[2], e[1])

\* A program was returned for an acyclic sheet with a chain A->B->C and the
\* edge A->C, the dependent A being the first cell of all_cells.
C1_Witness ==
    /\ pc = "done" /\ Acyclic(graph0)
    /\ \E a, b, c \in DOMAIN all_cells :
          /\ {<<a, b>>, <<b, c>>, <<a, c>>} \subseteq Edges(graph0)
          /\ all_cells_order[1] = a

\* C2: a reference cycle is never a hard failure: resolve_and_sort never
\* raises, and the program returned declares every cell of the declaration
\* mapping exactly once.
C2_CyclesNeverFail ==
    /\ ~RaisedInResolve
    /\ pc = "done" => \A c \in DOMAIN all_cells : Cardinality(LinesOf(c)) = 1

\* C3: after detect_and_break_cycles has returned, no vertex reaches itself
\* along the edges that were retained.
C3_NoCycleRemains == CyclesBroken => Acyclic(graph)

\* C4: every referenced cell the sheet does not define has a zero-literal
\* declaration in the mapping the extractor returns, and no run ends
\* without it being exactly once in the definition order and in the program.
C4_UndefinedDeclaredOnce ==
    ExtractReturned =>
        \A u \in undefined_vars(sheet) :
            /\ u \in DOMAIN all_cells /\ all_cells[u] = Declaration(u, "0")
            /\ pc \in {"done", "raised"} =>
                  Count(sorted_nodes, u) = 1 /\ Cardinality(LinesOf(u)) = 1

\* What holds of the code for C4: the zero-literal declaration is in the
\* mapping, and a run that returns a program has the cell exactly once.
UndefinedDeclaredWhenReturned ==
    ExtractReturned =>
        \A u \in undefined_vars(sheet) :
            /\ u \in DOMAIN all_cells /\ all_cells[u] = Declaration(u, "0")
            /\ pc = "done" =>
                  Count(sorted_nodes, u) = 1 /\ Cardinality(LinesOf(u)) = 1

\* The edges dfs examined while their target was on the path of active calls.
BackEdges == {<<x.from, x.to>> : x \in {y \in examined : y.on_path}}

\* C9: the edges detect_and_break_cycles deletes are exactly the back-edges
\* of its traversal; every other edge stays in the graph.
C9_OnlyBackEdgesRemoved ==
    CyclesBroken => Edges(graph0) \ Edges(graph) = BackEdges

\* The cell identifiers of a formula cell's translated expression.
translated_refs(v) == find_refs(convert_to_js(formula_text(v)), 1)
\* The graph of the references of the raw and of the translated formulas.
reference_graph(sh) ==
    [k \in {cell_ref(c, FirstRow) : c \in {c \in Columns : is_formula(sh[c])}} |->
        LET c == CHOOSE c \in Columns : cell_ref(c, FirstRow) = k
        IN  find_refs(formula_text(sh[c]), 1) \cup translated_refs(sh[c])]

\* C10: on a sheet without reference cycles, every cell identifier of a
\* formula cell's translated expression has a dependency edge from the
\* cell and a declaration in the program before the cell's own.
C10_TranslatedRefsDeclaredFirst ==
    (pc = "done" /\ Acyclic(reference_graph(sheet))) =>
        \A c \in {d \in Columns : is_formula(sheet[d])} :
            \A id \in translated_refs(sheet[c]) :
                /\ id \in graph_get(graph0, cell_ref(c, FirstRow))
                /\ id \in DOMAIN all_cells
                /\ DeclaredBefore(id, cell_ref(c, FirstRow))

\* C5: the vertices the queue of the Kahn sequencer starts with depend on
\* no other cell, and for an acyclic graph the returned order lists, for
\* every edge A->B, B before A.
C5_LeavesFirst ==
    /\ (pc = "kahn_queue" /\ sorted_nodes = <<>>) =>
          \A v \in SeqToSet(queue) : graph_get(graph, v) = {}
    /\ (pc = "kahn_done" /\ Acyclic(graph)) =>
          \A e \in Edges(graph) : ListedBefore(sorted_nodes, e[2], e[1])

\* What holds of the code for C5: the queue starts with the vertices no
\* cell depends on, and for an acyclic graph the returned order lists, for
\* every edge A->B, A before B.
DependentsFirst ==
    /\ (pc = "kahn_queue" /\ sorted_nodes = <<>>) =>
          SeqToSet(queue) =
              {v \in DOMAIN all_cells : \A k \in DOMAIN graph : v \notin graph[k]}
    /\ (pc = "kahn_done" /\ Acyclic(graph)) =>
          \A e \in Edges(graph) : ListedBefore(sorted_nodes, e[1], e[2])

KahnCountersAndOrder ==
    /\ \A v \in DOMAIN indegree : indegree[v] >= 0
    /\ \A v \in DOMAIN all_cells : Count(sorted_nodes, v) <= 1
    /\ \A v \in DOMAIN emitted_by : Cardinality(emitted_by[v]) = 1
    /\ pc = "kahn_done" =>
          /\ SeqToSet(sorted_nodes) = DOMAIN all_cells
          /\ Len(sorted_nodes) = Cardinality(DOMAIN all_cells)

ColumnOf(r) == SubSeq(r, 1, RunLen(r, 1, Upper))
RowOf(r) == SubSeq(r, RunLen(r, 1, Upper) + 1, Len(r))
CellArgs == {r \in RangeArgs : ColumnOf(r) # <<>> /\ RowOf(r) = <<"2">>}
\* The addition chain of the cells of r1's row from r1's column to r2's.
RangeChain(r1, r2) ==
    sum_terms(column_index_from_string(ColumnOf(r1)),
              column_index_from_string(ColumnOf(r2)), RowOf(r1))

\* C7: convert_to_js never raises, and a SUM call whose arguments start
\* with no column letter is returned unchanged.
C7_TranslatorNeverRaises ==
    /\ pc # "raised"
    /\ \A r1, r2 \in RangeArgs :
          (/\ pc = "returned" /\ formula = SumCall(r1, r2)
           /\ (r1 \notin CellArgs \/ r2 \notin CellArgs)) => js = formula

\* C8: SUM(ref1:ref2) over cells of one row, with columns of one or more
\* letters, becomes the addition chain of the row's cells from ref1's
\* column to ref2's, endpoints included (no term when ref2's is smaller).
C8_RangeSumExpansion ==
    \A r1, r2 \in CellArgs :
        (pc = "returned" /\ formula = SumCall(r1, r2)) => js = RangeChain(r1, r2)

\* What holds of the code for C8: the expansion when both columns are one letter.
RangeSumOneLetter ==
    \A r1, r2 \in {r \in CellArgs : Len(ColumnOf(r)) = 1} :
        (pc = "returned" /\ formula = SumCall(r1, r2)) => js = RangeChain(r1, r2)

=============================================================================
